---- MODULE Spec2Model ----
(***************************************************************************)
(* A model of the text-analytics pipeline of spark_text_lab.py and of the  *)
(* cluster script setup_emr.py.  Text is a sequence of one-character       *)
(* strings; a token is such a sequence too.                                *)
(***************************************************************************)
EXTENDS Integers, Sequences, FiniteSets, Bags, TLC

VARIABLES
    text, tokens,                            \* tokenizer: input and output
    corpus, files, job, phase, pairs, result, per_file,  \* aggregation jobs
    rdd, spc, serr, top_n, thr, top_before, top_after, filtered, df, total_count, avg, share,
    filtered_df,                             \* statistics of main()
    db, pcS, run, nextRun,                   \* document store and its writers
    dropped, preDrop, interfered, snap,      \* history of the store runs
    argv, epc, cluster_id, clusters, polls, terminate_requests, exit_code
                                             \* setup_emr.py and the EMR service

tokVars == <<text, tokens>>
aggVars == <<corpus, files, job, phase, pairs, result, per_file>>
statVars == <<rdd, spc, serr, top_n, thr, top_before, top_after, filtered, df, total_count, avg,
              share, filtered_df>>
storeVars == <<db, pcS, run, nextRun, dropped, preDrop, interfered, snap>>
emrVars == <<argv, epc, cluster_id, clusters, polls, terminate_requests, exit_code>>
vars == <<tokVars, aggVars, statVars, storeVars, emrVars>>

notTok == <<aggVars, statVars, storeVars, emrVars>>
notAgg == <<tokVars, statVars, storeVars, emrVars>>
notStat == <<tokVars, aggVars, storeVars, emrVars>>
notStore == <<tokVars, aggVars, statVars, emrVars>>
notEmr == <<tokVars, aggVars, statVars, storeVars>>

\* ------------------------------------------------------------------------
\* Bounds
MaxTextLen == 4
MaxCorpusLen == 7
MaxFolderLen == 5
MaxCount == 2
MaxNum == 2
MaxThreshold == 3
MaxRuns == 2
MaxPolls == 3

\* ------------------------------------------------------------------------
\* Characters
LowerChars == {"a", "b"}
UpperChars == {"A", "B"}
DigitChars == {"1"}
Apostrophe == "'"
Underscore == "_"
Space == " "
Newline == "\n"

TokChars == {"a", "B", "1", Apostrophe, Underscore, Space}

Texts(chars, n) == UNION {[1..k -> chars] : k \in 0..n}

SetMax(S) == CHOOSE x \in S : \A y \in S : y <= x
SetMin(S) == CHOOSE x \in S : \A y \in S : x <= y

\* str.lower() on one character
LowerChar(c) == CASE c = "A" -> "a" [] c = "B" -> "b" [] OTHER -> c
LowerStr(s) == [i \in 1..Len(s) |-> LowerChar(s[i])]

\* the character class [0-9a-zA-Z'] of WORD_RE
InClass(c) == c \in LowerChars \cup UpperChars \cup DigitChars \cup {Apostrophe}
\* \w of Python's re for str patterns: alphanumerics and the underscore
IsWordChar(c) == c \in LowerChars \cup UpperChars \cup DigitChars \cup {Underscore}

\* \b at position p (between s[p] and s[p+1], 0 <= p <= Len(s))
WordBoundary(s, p) ==
    ((p >= 1) /\ IsWordChar(s[p])) # ((p < Len(s)) /\ IsWordChar(s[p + 1]))

\* the end of the longest run of class characters that starts after position p
RECURSIVE ClassRunEnd(_, _)
ClassRunEnd(s, p) ==
    IF p < Len(s) /\ InClass(s[p + 1]) THEN ClassRunEnd(s, p + 1) ELSE p

\* WORD_RE.match at position p: \b, then [..]+ greedy, backtracking to the
\* longest end that is followed by \b.  0 when there is no match.
MatchEndNoBoundary(s, p) == IF ClassRunEnd(s, p) > p THEN ClassRunEnd(s, p) ELSE 0
MatchEnd(s, p) ==
    LET ends == {e \in (p + 1)..ClassRunEnd(s, p) : WordBoundary(s, e)}
    IN  IF WordBoundary(s, p) /\ ends # {} THEN SetMax(ends) ELSE 0

\* WORD_RE.findall(text): leftmost, non-overlapping matches
RECURSIVE FindAll(_, _)
FindAll(s, p) ==
    IF p >= Len(s) THEN <<>>
    ELSE LET e == MatchEnd(s, p)
         IN  IF e > 0 THEN <<SubSeq(s, p + 1, e)>> \o FindAll(s, e)
             ELSE FindAll(s, p + 1)

tokenize(t) ==
    LET m == FindAll(t, 0) IN [i \in 1..Len(m) |-> LowerStr(m[i])]

\* ------------------------------------------------------------------------
\* The aggregation jobs at rest
NoResult == <<"no result">>
AggIdle == /\ corpus = <<>> /\ files = <<>> /\ job = "none" /\ phase = "idle"
           /\ pairs = EmptyBag /\ result = NoResult /\ per_file = <<>>

\* The statistics of main() at rest
PyNone == [kind |-> "None", num |-> 0, den |-> 1]
NoError == [fn |-> "", exc |-> "none"]
StatIdle == /\ rdd = <<>> /\ spc = "idle" /\ serr = NoError /\ top_before = <<>>
            /\ top_n = 0 /\ thr = 0
            /\ top_after = <<>> /\ filtered = <<>> /\ df = {} /\ total_count = PyNone
            /\ avg = PyNone /\ share = PyNone /\ filtered_df = {}

\* The document store at rest
StoreIdle == /\ db = <<>> /\ pcS = <<>> /\ run = <<>> /\ nextRun = 0
             /\ dropped = <<>> /\ preDrop = <<>> /\ interfered = <<>> /\ snap = <<>>

\* The cluster script not started
EmrIdle == /\ argv = <<>> /\ epc = "idle" /\ cluster_id = "" /\ clusters = <<>>
           /\ polls = 0 /\ terminate_requests = <<>> /\ exit_code = -1

\* ------------------------------------------------------------------------
\* Tokenizer specification: tokenize applied to every bounded text
NotRun == <<<<"not run">>>>

TokIdle == text = <<>> /\ tokens = NotRun

TokInit == /\ text \in Texts(TokChars, MaxTextLen)
           /\ tokens = NotRun
           /\ AggIdle /\ StatIdle /\ StoreIdle /\ EmrIdle

Tokenize == /\ tokens = NotRun
            /\ tokens' = tokenize(text)
            /\ UNCHANGED <<text, notTok>>

TokNext == Tokenize

SpecTok == TokInit /\ [][TokNext]_vars

\* ---- maximal runs of class characters, as the contract words them
IsMaxRun(s, i, j) ==
    /\ i <= j
    /\ \A k \in i..j : InClass(s[k])
    /\ (i = 1 \/ ~InClass(s[i - 1]))
    /\ (j = Len(s) \/ ~InClass(s[j + 1]))

RunSpans(s) == {sp \in (1..Len(s)) \X (1..Len(s)) : IsMaxRun(s, sp[1], sp[2])}

RECURSIVE SpansInOrder(_)
SpansInOrder(S) ==
    IF S = {} THEN <<>>
    ELSE LET f == CHOOSE sp \in S : \A o \in S : sp[1] <= o[1]
         IN  <<f>> \o SpansInOrder(S \ {f})

MaximalRunTokens(s) ==
    LET sp == SpansInOrder(RunSpans(s))
    IN  [i \in 1..Len(sp) |-> LowerStr(SubSeq(s, sp[i][1], sp[i][2]))]

\* the part of a run between its first and its last word boundary
RunBoundaries(s, sp) == {p \in (sp[1] - 1)..sp[2] : WordBoundary(s, p)}
RunYields(s, sp) == Cardinality(RunBoundaries(s, sp)) >= 2
TrimmedRun(s, sp) ==
    LET B == RunBoundaries(s, sp)
    IN  LowerStr(SubSeq(s, SetMin(B) + 1, SetMax(B)))

TrimmedRunTokens(s) ==
    LET sp == SpansInOrder({r \in RunSpans(s) : RunYields(s, r)})
    IN  [i \in 1..Len(sp) |-> TrimmedRun(s, sp[i])]

\* C6 (as claimed): tokenize returns, in order, every lower-cased maximal
\* run of [0-9a-zA-Z'] whole: no run is shortened or omitted.
C6_MaximalRuns == tokens # NotRun => tokens = MaximalRunTokens(text)

\* C6 (amended): each maximal run of [0-9a-zA-Z'] yields at most one token,
\* the lower-cased part of the run between its first and its last word
\* boundary; a run with fewer than two word boundaries yields none.
C6_TrimmedRuns == tokens # NotRun => tokens = TrimmedRunTokens(text)

\* a run that starts with an apostrophe after a separator was tokenized
\* and came out shortened
C6_Witness ==
    /\ tokens # NotRun
    /\ \E sp \in RunSpans(text) :
          /\ text[sp[1]] = Apostrophe
          /\ RunYields(text, sp)
          /\ ~WordBoundary(text, sp[1] - 1)
    /\ tokens # MaximalRunTokens(text)

\* ------------------------------------------------------------------------
\* Aggregator: rdd_word_counts and top_bigrams over one corpus file
AggChars == {"a", "b", Space, Newline}
TopK == 20

\* sc.textFile: the records of a file are its lines; a final newline does
\* not open another line
RECURSIVE TextFileLines(_)
TextFileLines(s) ==
    IF s = <<>> THEN <<>>
    ELSE LET nl == {i \in 1..Len(s) : s[i] = Newline}
         IN  IF nl = {} THEN <<s>>
             ELSE <<SubSeq(s, 1, SetMin(nl) - 1)>>
                    \o TextFileLines(SubSeq(s, SetMin(nl) + 1, Len(s)))

\* rdd.flatMap(f): the concatenation of the sequences f made of the records
RECURSIVE Flatten(_)
Flatten(seqs) ==
    IF seqs = <<>> THEN <<>> ELSE Head(seqs) \o Flatten(Tail(seqs))

\* lines.flatMap(lambda l: tokenize(l))
FlatMapTokenize(recs) == Flatten([i \in 1..Len(recs) |-> tokenize(recs[i])])

\* the bag of (key, 1) records of words.map(lambda w: (w,1))
RECURSIVE OnePairs(_)
OnePairs(ws) ==
    IF ws = <<>> THEN EmptyBag
    ELSE SetToBag({<<Head(ws), 1>>}) (+) OnePairs(Tail(ws))

\* lambda a,b: a+b
ReduceFnKeepLeft(a, b) == a
ReduceFn(a, b) == a + b

\* two records of the bag that reduceByKey may combine next
Reducible(b, e1, e2) ==
    /\ e1 \in BagToSet(b) /\ e2 \in BagToSet(b)
    /\ e1[1] = e2[1]
    /\ (e1 # e2 \/ CopiesIn(e1, b) >= 2)

Combine(b, e1, e2) ==
    ((b (-) SetToBag({e1})) (-) SetToBag({e2}))
        (+) SetToBag({<<e1[1], ReduceFn(e1[2], e2[2])>>})

FullyReduced(b) == \A e1, e2 \in BagToSet(b) : ~Reducible(b, e1, e2)

\* the bigrams of one line's tokens: [(ws[i]+" "+ws[i+1], 1) for i in range(len(ws)-1)]
BigramsOfLine(ws) ==
    [i \in 1..(Len(ws) - 1) |-> ws[i] \o <<Space>> \o ws[i + 1]]

\* tokens.flatMap(lambda ws: [...])
FlatMapBigramsBridged(toks) == BigramsOfLine(Flatten(toks))
FlatMapBigrams(toks) == Flatten([i \in 1..Len(toks) |-> BigramsOfLine(toks[i])])

\* lines.map(tokenize).filter(lambda t: t)
RECURSIVE NonEmptyTokenLists(_)
NonEmptyTokenLists(lines) ==
    IF lines = <<>> THEN <<>>
    ELSE LET t == tokenize(Head(lines))
         IN  (IF t # <<>> THEN <<t>> ELSE <<>>) \o NonEmptyTokenLists(Tail(lines))

\* heapq.nsmallest(num, recs, key=lambda x: -x[1]): a stable selection, ties
\* stay in the order of recs
RECURSIVE NSmallest(_, _)
NSmallest(num, recs) ==
    IF num = 0 \/ recs = <<>> THEN <<>>
    ELSE LET best == SetMax({recs[i][2] : i \in 1..Len(recs)})
             at == SetMin({i \in 1..Len(recs) : recs[i][2] = best})
         IN  <<recs[at]>> \o
             NSmallest(num - 1, SubSeq(recs, 1, at - 1) \o SubSeq(recs, at + 1, Len(recs)))

\* rdd.takeOrdered(num, key): nsmallest in every partition, then the
\* partitions' lists merged left to right by nsmallest(num, a + b)
RECURSIVE MergeOrdered(_, _, _)
MergeOrdered(num, acc, parts) ==
    IF parts = <<>> THEN acc
    ELSE MergeOrdered(num, NSmallest(num, acc \o NSmallest(num, Head(parts))), Tail(parts))

takeOrdered(num, parts) ==
    IF parts = <<>> THEN <<>>
    ELSE MergeOrdered(num, NSmallest(num, Head(parts)), Tail(parts))

\* the orders in which the records of a reduced bag can be met
Orderings(S) ==
    {o \in [1..Cardinality(S) -> S] : \A i, j \in 1..Cardinality(S) : i # j => o[i] # o[j]}

AggInit == /\ corpus \in Texts(AggChars, MaxCorpusLen)
           /\ files = <<>> /\ job = "none" /\ phase = "idle"
           /\ pairs = EmptyBag /\ result = NoResult /\ per_file = <<>>
           /\ TokIdle /\ StatIdle /\ StoreIdle /\ EmrIdle

\* rdd_word_counts up to the shuffle: textFile, flatMap(tokenize), map (w,1)
WordCountMap ==
    /\ phase = "idle"
    /\ job' = "words"
    /\ pairs' = OnePairs(FlatMapTokenize(TextFileLines(corpus)))
    /\ phase' = "reduce"
    /\ UNCHANGED <<corpus, files, result, per_file, notAgg>>

\* top_bigrams up to the shuffle
BigramMap ==
    /\ phase = "idle"
    /\ job' = "bigrams"
    /\ pairs' = OnePairs(FlatMapBigrams(NonEmptyTokenLists(TextFileLines(corpus))))
    /\ phase' = "reduce"
    /\ UNCHANGED <<corpus, files, result, per_file, notAgg>>

\* one application of the reduce function to two values of one key, in any
\* order and across any partitions
ReduceByKeyStep ==
    /\ phase = "reduce"
    /\ \E e1, e2 \in BagToSet(pairs) :
          /\ Reducible(pairs, e1, e2)
          /\ pairs' = Combine(pairs, e1, e2)
    /\ UNCHANGED <<corpus, files, job, phase, result, per_file, notAgg>>

\* rdd_word_counts is complete: one record per key
WordCountDone ==
    /\ phase = "reduce" /\ job = "words"
    /\ FullyReduced(pairs)
    /\ phase' = "done"
    /\ result' = NoResult
    /\ UNCHANGED <<corpus, files, job, pairs, per_file, notAgg>>

\* bigram_counts.takeOrdered(top_k, key=lambda x: -x[1]); the records are
\* met in an order and in partitions the engine chooses
BigramTakeOrdered ==
    /\ phase = "reduce" /\ job = "bigrams"
    /\ FullyReduced(pairs)
    /\ \E o \in Orderings(BagToSet(pairs)) : \E cut \in 0..Len(o) :
          result' = takeOrdered(TopK, <<SubSeq(o, 1, cut), SubSeq(o, cut + 1, Len(o))>>)
    /\ phase' = "done"
    /\ UNCHANGED <<corpus, files, job, pairs, per_file, notAgg>>

AggNext == WordCountMap \/ BigramMap \/ ReduceByKeyStep \/ WordCountDone \/ BigramTakeOrdered

SpecAgg == AggInit /\ [][AggNext]_vars

\* ---- what the claims compare against
Occurrences(x, seq) == Cardinality({i \in 1..Len(seq) : seq[i] = x})
CorpusTokens == FlatMapTokenize(TextFileLines(corpus))
Range(seq) == {seq[i] : i \in 1..Len(seq)}

\* the sum of the counts of a set of (key, count) records
RECURSIVE SumCounts(_)
SumCounts(S) ==
    IF S = {} THEN 0
    ELSE LET x == CHOOSE y \in S : TRUE IN x[2] + SumCounts(S \ {x})

\* the count the reduced bag holds for a key, 0 when the key is absent
CountIn(b, k) ==
    LET es == {e \in BagToSet(b) : e[1] = k}
    IN  IF es = {} THEN 0 ELSE (CHOOSE e \in es : TRUE)[2]

\* C2: whatever the order of the pairwise reductions, rdd_word_counts holds
\* for each token exactly its number of occurrences in the tokenizer's
\* output, one record per token, and the counts sum to the number of tokens.
C2_WordCounts ==
    (job = "words" /\ phase = "done") =>
        /\ \A e \in BagToSet(pairs) : CopiesIn(e, pairs) = 1
        /\ {e[1] : e \in BagToSet(pairs)} = Range(CorpusTokens)
        /\ \A t \in Range(CorpusTokens) : CountIn(pairs, t) = Occurrences(t, CorpusTokens)
        /\ SumCounts(BagToSet(pairs)) = Len(CorpusTokens)

\* a token that occurs three times was counted, over two lines
C2_Witness ==
    /\ job = "words" /\ phase = "done"
    /\ Len(TextFileLines(corpus)) >= 2
    /\ \E e \in BagToSet(pairs) : e[2] >= 3
    /\ Cardinality(BagToSet(pairs)) >= 2

\* ---- bigrams
LineTokens == LET ls == TextFileLines(corpus) IN [i \in 1..Len(ls) |-> tokenize(ls[i])]

RECURSIVE SumSeq(_)
SumSeq(ns) == IF ns = <<>> THEN 0 ELSE Head(ns) + SumSeq(Tail(ns))

\* the positions i of a token sequence with token i = x and token i+1 = y
PairPositions(ws, x, y) ==
    Cardinality({i \in 1..(Len(ws) - 1) : ws[i] = x /\ ws[i + 1] = y})

BigramPositions(x, y) ==
    SumSeq([l \in 1..Len(LineTokens) |-> PairPositions(LineTokens[l], x, y)])

ResultCount(k) ==
    LET at == {i \in 1..Len(result) : result[i][1] = k}
    IN  IF at = {} THEN 0 ELSE result[SetMin(at)][2]

FanChars == {"a", "b", Space}
Slash == "/"
FolderPaths == << <<"d", Slash, "x">>, <<"d", Slash, "y">>, <<"e", Slash, "x">> >>

\* kv[0].split('/')[-1]
Basename(path) ==
    LET sl == {i \in 1..Len(path) : path[i] = Slash}
    IN  IF sl = {} THEN path ELSE SubSeq(path, SetMax(sl) + 1, Len(path))

\* Counter(tokens): one count per occurrence, key by key
CounterOfDistinct(ws) == [k \in Range(ws) |-> 1]
RECURSIVE CounterOf(_)
CounterOf(ws) ==
    IF ws = <<>> THEN <<>>
    ELSE LET c == CounterOf(Tail(ws))
             w == Head(ws)
         IN  [k \in (DOMAIN c) \cup {w} |->
                (IF k \in DOMAIN c THEN c[k] ELSE 0) + (IF k = w THEN 1 ELSE 0)]

\* files.mapValues(Counter(tokenize(text))).map((basename, dict)).collect()
PerFile(fs) ==
    [i \in 1..Len(fs) |-> <<Basename(fs[i][1]), CounterOf(tokenize(fs[i][2]))>>]

\* files.flatMap(lambda kv: tokenize(kv[1]))
GlobalWords(fs) == Flatten([i \in 1..Len(fs) |-> tokenize(fs[i][2])])

\* the files of a folder: a text of bounded length cut into the contents
\* of up to three files
RECURSIVE KeepAt(_, _, _)
KeepAt(seq, K, i) ==
    IF i > Len(seq) THEN <<>>
    ELSE (IF i \in K THEN <<seq[i]>> ELSE <<>>) \o KeepAt(seq, K, i + 1)

FolderOf(t, c1, c2, K) ==
    KeepAt(<< <<FolderPaths[1], SubSeq(t, 1, c1)>>,
              <<FolderPaths[2], SubSeq(t, c1 + 1, c2)>>,
              <<FolderPaths[3], SubSeq(t, c2 + 1, Len(t))>> >>, K, 1)

FanInit == /\ \E t \in Texts(FanChars, MaxFolderLen) :
              \E c1 \in 0..Len(t) : \E c2 \in c1..Len(t) : \E K \in SUBSET (1..3) :
                 files = FolderOf(t, c1, c2, K)
           /\ corpus = <<>> /\ job = "none" /\ phase = "idle"
           /\ pairs = EmptyBag /\ result = NoResult /\ per_file = <<>>
           /\ TokIdle /\ StatIdle /\ StoreIdle /\ EmrIdle

\* per_file_and_global_counts up to the shuffle of global_counts
FanoutMap ==
    /\ phase = "idle"
    /\ job' = "global"
    /\ per_file' = PerFile(files)
    /\ pairs' = OnePairs(GlobalWords(files))
    /\ phase' = "reduce"
    /\ UNCHANGED <<corpus, files, result, notAgg>>

\* global_counts is complete: one record per key
GlobalDone ==
    /\ phase = "reduce" /\ job = "global"
    /\ FullyReduced(pairs)
    /\ phase' = "done"
    /\ UNCHANGED <<corpus, files, job, pairs, result, per_file, notAgg>>

FanNext == FanoutMap \/ ReduceByKeyStep \/ GlobalDone

SpecFan == FanInit /\ [][FanNext]_vars

PerFileCount(i, t) ==
    IF t \in DOMAIN per_file[i][2] THEN per_file[i][2][t] ELSE 0

PerFileKeys == UNION {DOMAIN per_file[i][2] : i \in 1..Len(per_file)}

\* C1: for every token t the global count is the sum, over the returned
\* per-file entries, of the entry's count for t (0 when absent), and the
\* global distribution has no key that no per-file entry has.
C1_GlobalIsSum ==
    (job = "global" /\ phase = "done") =>
        /\ \A t \in PerFileKeys \cup {e[1] : e \in BagToSet(pairs)} :
              CountIn(pairs, t) = SumSeq([i \in 1..Len(per_file) |-> PerFileCount(i, t)])
        /\ {e[1] : e \in BagToSet(pairs)} \subseteq PerFileKeys
        /\ \A e \in BagToSet(pairs) : CopiesIn(e, pairs) = 1

\* two files of the same base name share a token, one of them twice, and
\* some token is absent from some file
C1_Witness ==
    /\ job = "global" /\ phase = "done"
    /\ \E i, j \in 1..Len(per_file) :
          /\ i # j /\ per_file[i][1] = per_file[j][1]
          /\ \E t \in DOMAIN per_file[i][2] : PerFileCount(i, t) >= 2 /\ PerFileCount(j, t) >= 1
    /\ \E k, l \in 1..Len(per_file) : \E t \in DOMAIN per_file[k][2] : PerFileCount(l, t) = 0

\* ------------------------------------------------------------------------
\* Statistics engine: the part of main() from compare_stopwords to
\* filter_count_ge, over the records of a counts RDD met in some order and
\* in two partitions
STOPWORDS == {<<"i", "s">>, <<"a">>, <<"t", "h", "e">>, <<"t", "o">>,
              <<"w", "i", "t", "h">>, <<"a", "n", "d">>}
StatWords == {<<"c", "a", "t">>, <<"s", "a", "t">>, <<"d", "o", "g">>, <<"t", "h", "e">>}

\* Python values: None, an int, or the float num/den of a true division
PyInt(i) == [kind |-> "int", num |-> i, den |-> 1]
PyFloat(a, b) == [kind |-> "float", num |-> a, den |-> b]
PyTypeError == [kind |-> "TypeError", num |-> 0, den |-> 1]
PyZeroDivisionError == [kind |-> "ZeroDivisionError", num |-> 0, den |-> 1]
IsRaise(v) == v.kind \in {"TypeError", "ZeroDivisionError"}

\* a / b of Python
PyTrueDiv(a, b) ==
    IF a.kind = "None" \/ b.kind = "None" THEN PyTypeError
    ELSE IF b.num = 0 THEN PyZeroDivisionError
    ELSE PyFloat(a.num * b.den, a.den * b.num)

RECURSIVE SumRowCounts(_)
SumRowCounts(rows) ==
    IF rows = {} THEN 0
    ELSE LET r == CHOOSE x \in rows : TRUE IN r.count + SumRowCounts(rows \ {r})

\* df.groupBy().sum('count').collect()[0][0]: SQL's sum of no rows is NULL
SqlSumCount(rows) == IF rows = {} THEN PyNone ELSE PyInt(SumRowCounts(rows))

RddRecords(parts) == Range(Flatten(parts))

\* counts_rdd.filter(lambda x: x[0] not in STOPWORDS), partition by partition
RECURSIVE DropStopwords(_)
DropStopwords(recs) ==
    IF recs = <<>> THEN <<>>
    ELSE (IF Head(recs)[1] \in STOPWORDS THEN <<>> ELSE <<Head(recs)>>)
            \o DropStopwords(Tail(recs))

StatInit ==
    /\ \E S \in SUBSET StatWords : \E c \in [S -> 1..MaxCount] :
          \E o \in Orderings({<<w, c[w]>> : w \in S}) : \E cut \in 0..Len(o) :
             rdd = <<SubSeq(o, 1, cut), SubSeq(o, cut + 1, Len(o))>>
    /\ spc = "idle" /\ serr = NoError /\ top_n = 0 /\ thr = 0
    /\ top_before = <<>> /\ top_after = <<>> /\ filtered = <<>> /\ df = {}
    /\ total_count = PyNone /\ avg = PyNone /\ share = PyNone /\ filtered_df = {}
    /\ TokIdle /\ AggIdle /\ StoreIdle /\ EmrIdle

\* compare_stopwords(counts_rdd), with the number of entries to take
CompareStopwords(n) ==
    /\ spc = "idle"
    /\ top_n' = n
    /\ top_before' = takeOrdered(n, rdd)
    /\ filtered' = [p \in 1..Len(rdd) |-> DropStopwords(rdd[p])]
    /\ top_after' = takeOrdered(n, filtered')
    /\ spc' = "compared"
    /\ UNCHANGED <<rdd, serr, thr, df, total_count, avg, share, filtered_df, notStat>>

\* df_from_counts: toDF infers the schema from the first record and raises
\* ValueError on an RDD with no record
DfFromCounts ==
    /\ spc = "compared"
    /\ IF RddRecords(rdd) = {}
       THEN /\ serr' = [fn |-> "df_from_counts", exc |-> "ValueError"]
            /\ spc' = "raised"
            /\ UNCHANGED <<df, total_count>>
       ELSE /\ total_count' = PyInt(SumCounts(RddRecords(rdd)))
            /\ df' = {[word |-> r[1], count |-> r[2], length |-> Len(r[1]),
                       freq |-> PyFloat(r[2], total_count'.num)] : r \in RddRecords(rdd)}
            /\ spc' = "df"
            /\ UNCHANGED serr
    /\ UNCHANGED <<rdd, top_n, thr, top_before, top_after, filtered, avg, share, filtered_df,
                   notStat>>

RECURSIVE SumLengthTimesCount(_)
SumLengthTimesCount(rows) ==
    IF rows = {} THEN 0
    ELSE LET r == CHOOSE x \in rows : TRUE
         IN  r.length * r.count + SumLengthTimesCount(rows \ {r})

\* weighted_avg_word_length(df, total)
WeightedAvg ==
    /\ spc = "df"
    /\ LET v == PyTrueDiv(PyInt(SumLengthTimesCount(df)), total_count)
       IN  IF IsRaise(v)
           THEN /\ serr' = [fn |-> "weighted_avg_word_length", exc |-> v.kind]
                /\ spc' = "raised"
                /\ UNCHANGED avg
           ELSE /\ avg' = v
                /\ spc' = "avg"
                /\ UNCHANGED serr
    /\ UNCHANGED <<rdd, top_n, thr, top_before, top_after, filtered, df, total_count, share,
                   filtered_df, notStat>>

\* filter_count_ge(df, n)
FilterCountGe(n) ==
    /\ spc = "avg"
    /\ thr' = n
    /\ LET total == SqlSumCount(df)
           kept == {r \in df : r.count >= n}
           v == PyTrueDiv(SqlSumCount(kept), total)
       IN  IF IsRaise(v)
           THEN /\ serr' = [fn |-> "filter_count_ge", exc |-> v.kind]
                /\ spc' = "raised"
                /\ UNCHANGED <<share, filtered_df>>
           ELSE /\ share' = v
                /\ filtered_df' = kept
                /\ spc' = "done"
                /\ UNCHANGED serr
    /\ UNCHANGED <<rdd, top_n, top_before, top_after, filtered, df, total_count, avg,
                   notStat>>

StatNext == \/ \E n \in 1..MaxNum : CompareStopwords(n)
            \/ DfFromCounts
            \/ WeightedAvg
            \/ \E n \in 0..MaxThreshold : FilterCountGe(n)

SpecStat == StatInit /\ [][StatNext]_vars

\* ---- what the claims compare against
FilterRan == spc = "done" \/ (spc = "raised" /\ serr.fn = "filter_count_ge")

\* C4 (as claimed): for a non-empty distribution and every threshold n,
\* filter_count_ge returns the records with count >= n and a share in [0,1]
\* that is (sum of their counts)/(total count), 1 when n <= the least count
\* and 0 when n is above the greatest.
C4_Share ==
    (FilterRan /\ df # {}) =>
        /\ spc = "done"
        /\ filtered_df = {r \in df : r.count >= thr}
        /\ share.kind = "float"
        /\ share.num = SumRowCounts(filtered_df) /\ share.den = SumRowCounts(df)
        /\ 0 <= share.num /\ share.num <= share.den
        /\ ((\A r \in df : thr <= r.count) => share.num = share.den)
        /\ ((\A r \in df : thr > r.count) => share.num = 0)

\* C5 (as claimed): on an empty corpus neither the weighted average
\* (df_from_counts, weighted_avg_word_length) nor the share
\* (filter_count_ge) raises.
C5_EmptyCorpusNoRaise ==
    (RddRecords(rdd) = {} /\ spc \notin {"idle", "compared"}) => spc # "raised"

\* ---- str comparison of Python: code point by code point
CodeOrder == <<"a", "c", "d", "e", "g", "h", "o", "s", "t">>
Ord(c) == CHOOSE i \in 1..Len(CodeOrder) : CodeOrder[i] = c

RECURSIVE StrLess(_, _)
StrLess(x, y) ==
    IF y = <<>> THEN FALSE
    ELSE IF x = <<>> THEN TRUE
    ELSE IF Head(x) # Head(y) THEN Ord(Head(x)) < Ord(Head(y))
    ELSE StrLess(Tail(x), Tail(y))

\* the n records of highest count, count descending, ties by ascending key
RECURSIVE LexTop(_, _)
LexTop(n, recs) ==
    IF n = 0 \/ recs = {} THEN <<>>
    ELSE LET f == CHOOSE r \in recs : \A o \in recs \ {r} :
                     r[2] > o[2] \/ (r[2] = o[2] /\ StrLess(r[1], o[1]))
         IN  <<f>> \o LexTop(n - 1, recs \ {f})

\* C7 (as claimed): top-N is the N entries of highest count, descending,
\* ties by ascending key, whatever the partitioning and encounter order.
C7_LexTies ==
    spc # "idle" =>
        /\ top_before = LexTop(top_n, RddRecords(rdd))
        /\ top_after = LexTop(top_n, RddRecords(filtered))

\* ------------------------------------------------------------------------
\* Persistence adapter: mongo_store_counts and store_global_and_perfile_mongo
\* run by two clients against one database; every call to the store is
\* one step
Clients == {1, 2}
Collections == {"words", "global_wordcount", "per_file_wordcount"}
CountDesc == <<"count", -1>>
EmptyCollection == [docs |-> {}, indexes |-> {}]

WordA == <<"a">>
WordB == <<"b", "b">>
FileX == <<"x">>

\* what a run is given: the records of a counts RDD, and for the fan-out
\* the per-file list with the global counts of the same files
CountInputs == { {}, {<<WordA, 1>>}, {<<WordA, 2>>, <<WordB, 1>>} }
FanInputs ==
    { [per_file |-> <<>>, counts |-> {}],
      [per_file |-> << <<FileX, <<>> >> >>, counts |-> {}],
      [per_file |-> << <<FileX, (WordA :> 2)>>, <<FileX, (WordA :> 1 @@ WordB :> 1)>> >>,
       counts |-> {<<WordA, 3>>, <<WordB, 1>>}] }

NoRun == [id |-> 0, fn |-> "none", counts |-> {}, per_file |-> <<>>]

\* the documents of a run; insert_many gives every document its own _id
WordDocs(r) ==
    {[oid |-> <<r.id, 0, wc[1]>>, word |-> wc[1], count |-> wc[2], length |-> Len(wc[1])]
        : wc \in r.counts}
GlobalDocs(r) ==
    {[oid |-> <<r.id, 0, wc[1]>>, word |-> wc[1], count |-> wc[2]] : wc \in r.counts}
PerFileDocs(r) ==
    UNION {{[oid |-> <<r.id, i, w>>, file |-> r.per_file[i][1], word |-> w,
             count |-> r.per_file[i][2][w]] : w \in DOMAIN r.per_file[i][2]}
              : i \in 1..Len(r.per_file)}

\* coll.drop(): the documents and the indexes of the collection are gone
DropCollectionKeepDocs(d, k) == [d EXCEPT ![k].indexes = {}]
DropCollection(d, k) == [d EXCEPT ![k] = EmptyCollection]
\* coll.insert_many(docs)
InsertMany(d, k, docs) == [d EXCEPT ![k].docs = @ \cup docs]
\* coll.create_index([('count', -1)])
CreateIndex(d, k) == [d EXCEPT ![k].indexes = @ \cup {CountDesc}]

Writes(r) == IF r.fn = "mongo_store_counts" THEN {"words"}
             ELSE IF r.fn = "store_global_and_perfile_mongo"
                  THEN {"global_wordcount", "per_file_wordcount"}
                  ELSE {}

\* history: another client's drop or insert on k, after c dropped k and
\* before c returned
Interfere(c, k) ==
    [o \in Clients |->
        IF o # c /\ pcS[o] # "returned" /\ k \in dropped[o]
        THEN interfered[o] \cup {k} ELSE interfered[o]]

StoreInit ==
    /\ db = [k \in Collections |-> EmptyCollection]
    /\ pcS = [c \in Clients |-> "idle"]
    /\ run = [c \in Clients |-> NoRun]
    /\ nextRun = 1
    /\ dropped = [c \in Clients |-> {}]
    /\ preDrop = [c \in Clients |-> [k \in Collections |-> {}]]
    /\ interfered = [c \in Clients |-> {}]
    /\ snap = [c \in Clients |-> [k \in Collections |-> EmptyCollection]]
    /\ TokIdle /\ AggIdle /\ StatIdle /\ EmrIdle

Begin(c, r, at) ==
    /\ pcS[c] \in {"idle", "returned"}
    /\ nextRun <= MaxRuns
    /\ run' = [run EXCEPT ![c] = r]
    /\ nextRun' = nextRun + 1
    /\ pcS' = [pcS EXCEPT ![c] = at]
    /\ dropped' = [dropped EXCEPT ![c] = {}]
    /\ interfered' = [interfered EXCEPT ![c] = {}]
    /\ preDrop' = [preDrop EXCEPT ![c] = [k \in Collections |-> {}]]
    /\ UNCHANGED <<db, snap, notStore>>

\* main() calls mongo_store_counts(counts, mongo_uri)
CallStoreCounts(c, counts) ==
    Begin(c, [id |-> nextRun, fn |-> "mongo_store_counts", counts |-> counts,
              per_file |-> <<>>], "drop")

\* main() calls store_global_and_perfile_mongo(per_file, global_counts, mongo_uri)
CallStoreFanout(c, in) ==
    Begin(c, [id |-> nextRun, fn |-> "store_global_and_perfile_mongo",
              counts |-> in.counts, per_file |-> in.per_file], "g_drop")

DropStep(c, k, next) ==
    /\ db' = DropCollection(db, k)
    /\ preDrop' = [preDrop EXCEPT ![c][k] = db[k].docs]
    /\ dropped' = [dropped EXCEPT ![c] = @ \cup {k}]
    /\ interfered' = Interfere(c, k)
    /\ pcS' = [pcS EXCEPT ![c] = next]
    /\ UNCHANGED <<run, nextRun, snap, notStore>>

InsertStep(c, k, docs, next) ==
    /\ db' = InsertMany(db, k, docs)
    /\ interfered' = Interfere(c, k)
    /\ pcS' = [pcS EXCEPT ![c] = next]
    /\ UNCHANGED <<run, nextRun, dropped, preDrop, snap, notStore>>

IndexStep(c, k, next) ==
    /\ db' = CreateIndex(db, k)
    /\ pcS' = [pcS EXCEPT ![c] = next]
    /\ UNCHANGED <<run, nextRun, dropped, preDrop, interfered, snap, notStore>>

SkipStep(c, next) ==
    /\ pcS' = [pcS EXCEPT ![c] = next]
    /\ UNCHANGED <<db, run, nextRun, dropped, preDrop, interfered, snap, notStore>>

\* mongo_store_counts: coll.drop()
StoreDrop(c) ==
    /\ pcS[c] = "drop"
    /\ DropStep(c, "words", "insert")

\* mongo_store_counts: if docs: coll.insert_many(docs)
StoreInsert(c) ==
    /\ pcS[c] = "insert"
    /\ IF WordDocs(run[c]) # {}
       THEN InsertStep(c, "words", WordDocs(run[c]), "index")
       ELSE SkipStep(c, "return")

\* mongo_store_counts: coll.create_index([('count', -1)]), inside if docs
StoreIndex(c) ==
    /\ pcS[c] = "index"
    /\ IndexStep(c, "words", "return")

\* store_global_and_perfile_mongo: db.global_wordcount.drop()
FanDropGlobal(c) ==
    /\ pcS[c] = "g_drop"
    /\ DropStep(c, "global_wordcount", "p_drop")

\* store_global_and_perfile_mongo: db.per_file_wordcount.drop()
FanDropPerFile(c) ==
    /\ pcS[c] = "p_drop"
    /\ DropStep(c, "per_file_wordcount", "g_insert")

\* store_global_and_perfile_mongo: if docs: db.global_wordcount.insert_many(docs)
FanInsertGlobal(c) ==
    /\ pcS[c] = "g_insert"
    /\ IF GlobalDocs(run[c]) # {}
       THEN InsertStep(c, "global_wordcount", GlobalDocs(run[c]), "g_index")
       ELSE SkipStep(c, "p_insert")

\* store_global_and_perfile_mongo: db.global_wordcount.create_index, inside if docs
FanIndexGlobal(c) ==
    /\ pcS[c] = "g_index"
    /\ IndexStep(c, "global_wordcount", "p_insert")

\* store_global_and_perfile_mongo: if per_docs: db.per_file_wordcount.insert_many(per_docs)
FanInsertPerFile(c) ==
    /\ pcS[c] = "p_insert"
    /\ IF PerFileDocs(run[c]) # {}
       THEN InsertStep(c, "per_file_wordcount", PerFileDocs(run[c]), "return")
       ELSE SkipStep(c, "return")

\* either function returns; the history keeps what the store held then
Return(c) ==
    /\ pcS[c] = "return"
    /\ pcS' = [pcS EXCEPT ![c] = "returned"]
    /\ snap' = [snap EXCEPT ![c] = db]
    /\ UNCHANGED <<db, run, nextRun, dropped, preDrop, interfered, notStore>>

StoreNext ==
    \E c \in Clients :
        \/ \E counts \in CountInputs : CallStoreCounts(c, counts)
        \/ \E in \in FanInputs : CallStoreFanout(c, in)
        \/ StoreDrop(c) \/ StoreInsert(c) \/ StoreIndex(c)
        \/ FanDropGlobal(c) \/ FanDropPerFile(c) \/ FanInsertGlobal(c)
        \/ FanIndexGlobal(c) \/ FanInsertPerFile(c)
        \/ Return(c)

SpecStore == StoreInit /\ [][StoreNext]_vars

ExpectedDocs(r, k) ==
    CASE k = "words" -> WordDocs(r)
      [] k = "global_wordcount" -> GlobalDocs(r)
      [] k = "per_file_wordcount" -> PerFileDocs(r)

\* C3 (as claimed): when a store run completes, the collection holds
\* exactly one record per entry of the run's distribution and nothing else,
\* also when a concurrent run's drop and insert interleave with this run's.
C3_ExactlyThisRun ==
    \A c \in Clients : pcS[c] = "returned" =>
        \A k \in Writes(run[c]) : snap[c][k].docs = ExpectedDocs(run[c], k)

\* C3 (amended): when a store run completes, no record that was in the
\* collection when the run dropped it is left; and when no other run
\* dropped or inserted into the collection between this run's drop and its
\* completion, the collection holds exactly one record per entry of the
\* run's distribution and nothing else.
C3_ReplacesWhenAlone ==
    \A c \in Clients : pcS[c] = "returned" =>
        \A k \in Writes(run[c]) :
            /\ snap[c][k].docs \cap preDrop[c][k] = {}
            /\ (k \notin interfered[c] => snap[c][k].docs = ExpectedDocs(run[c], k))

\* a run replaced, undisturbed, the records an earlier run had stored
C3_Witness ==
    \E c \in Clients :
        /\ pcS[c] = "returned"
        /\ \E k \in Writes(run[c]) :
              /\ preDrop[c][k] # {}
              /\ k \notin interfered[c]
              /\ snap[c][k].docs # {}
              /\ snap[c][k].docs = ExpectedDocs(run[c], k)

\* C9 (as claimed): after every completed store the written collection has
\* a descending index on count, whatever the distribution holds.
C9_IndexAfterStore ==
    \A c \in Clients : pcS[c] = "returned" =>
        \A k \in Writes(run[c]) : CountDesc \in snap[c][k].indexes

\* ------------------------------------------------------------------------
\* setup_emr.py: the script from its first statement to its exit, and the
\* EMR service it calls
ExistingClusters == {"j-1", "j-2"}
NewCluster == "j-new"
ScriptArgs == { <<"setup_emr.py">>, <<"setup_emr.py", "terminate">> }
                 \cup { <<"setup_emr.py", "terminate", id>> : id \in ExistingClusters }

EmrInit ==
    /\ argv \in ScriptArgs
    /\ epc = "create_emr_cluster"
    /\ cluster_id = ""
    /\ clusters \in [ExistingClusters -> {"RUNNING", "WAITING"}]
    /\ polls = 0
    /\ terminate_requests = <<>>
    /\ exit_code = -1
    /\ TokIdle /\ AggIdle /\ StatIdle /\ StoreIdle

\* create_emr_cluster: emr_client.run_job_flow(**cluster_config) answers
RunJobFlow ==
    /\ epc = "create_emr_cluster"
    /\ cluster_id' = NewCluster
    /\ clusters' = [k \in (DOMAIN clusters) \cup {NewCluster} |->
                      IF k = NewCluster THEN "STARTING" ELSE clusters[k]]
    /\ epc' = "describe_cluster"
    /\ UNCHANGED <<argv, polls, terminate_requests, exit_code, notEmr>>

\* create_emr_cluster: a call raises; except Exception prints and sys.exit(1)
CreateRaises ==
    /\ epc \in {"create_emr_cluster", "describe_cluster"}
    /\ epc' = "exited"
    /\ exit_code' = 1
    /\ UNCHANGED <<argv, cluster_id, clusters, polls, terminate_requests, notEmr>>

\* wait_for_cluster_ready: one describe_cluster and the test of its state
DescribeCluster ==
    /\ epc = "describe_cluster"
    /\ polls' = polls + 1
    /\ epc' = IF clusters[cluster_id] \in {"WAITING", "TERMINATED", "TERMINATED_WITH_ERRORS"}
              THEN "main" ELSE "sleep"
    /\ UNCHANGED <<argv, cluster_id, clusters, terminate_requests, exit_code, notEmr>>

\* wait_for_cluster_ready: time.sleep(60), then the loop again
Sleep ==
    /\ epc = "sleep"
    /\ polls < MaxPolls
    /\ epc' = "describe_cluster"
    /\ UNCHANGED <<argv, cluster_id, clusters, polls, terminate_requests, exit_code, notEmr>>

\* the EMR service moves the new cluster on
ClusterNext(st) ==
    CASE st = "STARTING" -> {"BOOTSTRAPPING", "TERMINATED_WITH_ERRORS"}
      [] st = "BOOTSTRAPPING" -> {"RUNNING", "WAITING", "TERMINATED_WITH_ERRORS"}
      [] st = "RUNNING" -> {"WAITING"}
      [] st = "WAITING" -> {"RUNNING"}
      [] st = "TERMINATING" -> {"TERMINATED"}
      [] OTHER -> {}

ClusterProgress ==
    /\ epc \in {"describe_cluster", "sleep"}
    /\ \E st \in ClusterNext(clusters[NewCluster]) :
          clusters' = [clusters EXCEPT ![NewCluster] = st]
    /\ UNCHANGED <<argv, epc, cluster_id, polls, terminate_requests, exit_code, notEmr>>

\* __main__ after create_emr_cluster returned: the test of sys.argv
MainArgs ==
    /\ epc = "main"
    /\ IF Len(argv) > 1 /\ argv[2] = "terminate"
       THEN IF Len(argv) > 2
            THEN epc' = "terminate_cluster" /\ UNCHANGED exit_code
            ELSE epc' = "exited" /\ exit_code' = 0
       ELSE epc' = "exited" /\ exit_code' = 0
    /\ UNCHANGED <<argv, cluster_id, clusters, polls, terminate_requests, notEmr>>

\* terminate_cluster(sys.argv[2]): terminate_job_flows answers
TerminateCluster ==
    /\ epc = "terminate_cluster"
    /\ terminate_requests' = Append(terminate_requests, argv[3])
    /\ clusters' = [clusters EXCEPT ![argv[3]] = "TERMINATING"]
    /\ epc' = "exited"
    /\ exit_code' = 0
    /\ UNCHANGED <<argv, cluster_id, polls, notEmr>>

\* terminate_cluster: terminate_job_flows raises, nothing catches it
TerminateRaises ==
    /\ epc = "terminate_cluster"
    /\ epc' = "traceback"
    /\ exit_code' = 1
    /\ UNCHANGED <<argv, cluster_id, clusters, polls, terminate_requests, notEmr>>

EmrNext == \/ RunJobFlow \/ CreateRaises \/ DescribeCluster \/ Sleep \/ ClusterProgress
           \/ MainArgs \/ TerminateCluster \/ TerminateRaises

SpecEmr == EmrInit /\ [][EmrNext]_vars

\* C10 (as claimed): run as `terminate <cluster_id>`, the script issues a
\* terminate request for exactly that cluster whatever becomes of its other
\* EMR calls; so once the script has ended, other than by the terminate
\* call itself raising, the request has been made.
C10_TerminateIssued ==
    (Len(argv) = 3 /\ argv[2] = "terminate" /\ epc = "exited")
        => terminate_requests = <<argv[3]>>
====
